---- MODULE Spec2Model ----
(***************************************************************************)
(* Filter and view-state synchronisation of the ProjectMap component       *)
(* (src/src/components/ProjectMap.js): the React state hooks, the Mapbox   *)
(* renderer state the component drives, the two kinds of count timers and  *)
(* the handlers registered once in the map's load callback.                *)
(***************************************************************************)
EXTENDS Integers, Sequences, FiniteSets, TLC

\* ------------------------------------------------------------------ bounds
\* How many chips of each filter dimension the user clicks on, and how many
\* 300 ms count timers may be pending at once.
NYears    == 2
NStatuses == 1
NTypes    == 1
MaxTimers == 2

\* --------------------------------------------------------------- constants
VIEWS == <<"coverage", "performance", "technology">>

YEARS == <<"2019", "2020", "2021", "2022", "2023", "2024", "2025">>

STATUSES == <<"COMPLETED", "ONGOING", "YET TO MOBILIZE">>

TYPES == <<"GRID", "SOLAR STREET LIGHT", "SOLAR MINI GRID", "SOLAR HOME SYSTEM",
           "SOLAR BOREHOLE", "SOLAR WATER PUMP", "SOLAR PUMPING MACHINE",
           "SOLAR IRRIGATION PUMP", "INJECTION SUBSTATION", "TRAINING",
           "ELECTRIC VEHICLE", "COUNTERPART FUNDING", "VEHICLE PURCHASE", "HQRTS",
           "GRID/SOLAR STREET LIGHT", "GRID/SOLAR HOME SYSTEM", "GRID/SOLAR MINI GRID",
           "SOLAR MINI GRID/SOLAR STREET LIGHT", "SOLAR STREET LIGHT/SOLAR HOME SYSTEM">>

\* The chips the user clicks on: "2022", "2023", ... ; "ONGOING", ... ; "GRID", ...
YearChips   == {YEARS[i] : i \in {j \in DOMAIN YEARS : j > 3 /\ j <= 3 + NYears}}
StatusChips == {STATUSES[i] : i \in {j \in DOMAIN STATUSES : j > 1 /\ j <= 1 + NStatuses}}
TypeChips   == {TYPES[i] : i \in {j \in DOMAIN TYPES : j <= NTypes}}

\* ------------------------------------------------------------ JS encodings
\* null is the empty sequence, a present value x is <<x>>.
None    == <<>>
Some(x) == <<x>>

\* A string whose characters matter (a region name) is a sequence of
\* one-character strings; String.prototype.toUpperCase maps it letter by letter.
LowerLetters == <<"a","b","c","d","e","f","g","h","i","j","k","l","m",
                  "n","o","p","q","r","s","t","u","v","w","x","y","z">>
UpperLetters == <<"A","B","C","D","E","F","G","H","I","J","K","L","M",
                  "N","O","P","Q","R","S","T","U","V","W","X","Y","Z">>

UpperChar(c) ==
    IF \E i \in DOMAIN LowerLetters : LowerLetters[i] = c
    THEN UpperLetters[CHOOSE i \in DOMAIN LowerLetters : LowerLetters[i] = c]
    ELSE c

ToUpperCase(s) == [i \in DOMAIN s |-> UpperChar(s[i])]

\* Array.prototype.includes / filter(v => v !== x) / [...a, x]
Includes(a, x) == \E i \in DOMAIN a : a[i] = x
Without(a, x)  == SelectSeq(a, LAMBDA v : v # x)
\* (variants: a value already selected is left in; a value is appended
\* without looking whether it is selected)
Toggled_NeverRemoves(a, x) == IF Includes(a, x) THEN a ELSE Append(a, x)
Toggled_AlwaysAppends(a, x) == Append(a, x)
Toggled(a, x)  == IF Includes(a, x) THEN Without(a, x) ELSE Append(a, x)

\* ------------------------------------------------------------------- data
\* properties of the region polygons of the 'states' source
\* (Kano: a polygon the statistics were not joined to)
Lagos == [shapeName |-> <<"L","a","g","o","s">>, total |-> 2, completed |-> 1,
          ongoing |-> 1, yet_to_mobilize |-> 0, pct_completed |-> 50,
          solar_street_light |-> 0, grid |-> 1, solar_mini_grid |-> 1,
          solar_home_system |-> 0, other_type |-> 0]
Kano  == [shapeName |-> <<"K","A","N","O">>]
StateFeatures == {Lagos, Kano}

\* properties of the point features of the 'projects' source
Projects ==
    { [state |-> <<"L","A","G","O","S">>, year |-> "2022", status |-> "ONGOING",
       type |-> "GRID"],
      [state |-> <<"L","A","G","O","S">>, year |-> "2023", status |-> "COMPLETED",
       type |-> "SOLAR MINI GRID"],
      [state |-> <<"K","A","N","O">>, year |-> "2022", status |-> "ONGOING",
       type |-> "SOLAR STREET LIGHT"] }

\* ------------------------------------------------------------------ state
VARIABLES
    view, selectedYears, selectedStatus, selectedTypes,   \* React state
    activeState, stateData, pointCount, mapReady,
    mapLoaded,            \* the map's 'load' callback has run
    handlerRegs,          \* how often the load callback has registered the handlers
    pointsFilter,         \* filter of layer 'project-points'
    pointsVisibility,     \* layout visibility of 'project-points'
    choroplethVisibility, \* layout visibility of 'state-choropleth'
    fillOpacity,          \* 'fill-opacity' of 'state-fill', in hundredths
    circleColor,          \* which 'circle-color' rule 'project-points' has
    hoverFilter,          \* shapeName the 'state-fill-hover' filter selects
    cursor,               \* canvas cursor
    camera,               \* None = the whole country, Some(props) = fitted to a region
    initTimer,            \* the 500 ms timer of the load callback is pending
    sampleTimers,         \* number of pending 300 ms timers of applyFilter
    lastOp,               \* history: the selection or view handler that ran last
    scenario,             \* history: how far the run has followed Scenario
    oddToggles,           \* history: the chips toggled an odd number of times
    handledTwice,         \* history: the last handler repeated a region click
    compileIn,            \* harness: an argument tuple of applyFilter
    compileOut,           \* harness: None, or Some(filter built from compileIn)
    evalIn,               \* harness: a type token, or the arguments of pct
    evalOut               \* harness: None, or Some(result computed from evalIn)

reactVars    == <<view, selectedYears, selectedStatus, selectedTypes,
                  activeState, stateData, pointCount, mapReady>>
selVars      == <<selectedYears, selectedStatus, selectedTypes>>
mapVars      == <<mapLoaded, handlerRegs>>
styleVars    == <<pointsVisibility, choroplethVisibility, fillOpacity, circleColor>>
hoverVars    == <<hoverFilter, cursor>>
timerVars    == <<initTimer, sampleTimers>>
histVars     == <<lastOp, scenario, oddToggles, handledTwice>>
harnessVars  == <<compileIn, compileOut, evalIn, evalOut>>
vars == <<view, selectedYears, selectedStatus, selectedTypes,
          activeState, stateData, pointCount, mapReady, mapLoaded, handlerRegs,
          pointsFilter, pointsVisibility, choroplethVisibility, fillOpacity,
          circleColor, hoverFilter, cursor, camera, initTimer, sampleTimers,
          lastOp, scenario, oddToggles, handledTwice,
          compileIn, compileOut, evalIn, evalOut>>

\* ------------------------------------------------- the predicate compiler
\* Mapbox expressions: null, ['==', ['get', p], v], ['in', ['get', p], ['literal', a]]
\* and ['all', c1, ..., cn]; a layer that never had setFilter called has no filter.
NoFilter   == [op |-> "undefined"]
NullFilter == [op |-> "null"]
EqGet(prop, v)    == [op |-> "==", prop |-> prop, val |-> v]
InLiteral(prop, a) == [op |-> "in", prop |-> prop, val |-> a]
All(conds)        == [op |-> "all", args |-> conds]

\* JS truthiness of an optional string: null and '' are falsy
Truthy(o) == o # None /\ o[1] # <<>>

\* (variants of Conditions: the length guards forgotten; the types forgotten)
Conditions_NoLengthGuard(years, statuses, types, stateName) ==
       (IF Truthy(stateName) THEN <<EqGet("state", stateName[1])>> ELSE <<>>)
    \o <<InLiteral("year", years), InLiteral("status", statuses),
         InLiteral("type", types)>>

Conditions_DropsTypes(years, statuses, types, stateName) ==
       (IF Truthy(stateName) THEN <<EqGet("state", stateName[1])>> ELSE <<>>)
    \o (IF Len(years) # 0    THEN <<InLiteral("year", years)>>      ELSE <<>>)
    \o (IF Len(statuses) # 0 THEN <<InLiteral("status", statuses)>> ELSE <<>>)

Conditions(years, statuses, types, stateName) ==
       (IF Truthy(stateName) THEN <<EqGet("state", stateName[1])>> ELSE <<>>)
    \o (IF Len(years) # 0    THEN <<InLiteral("year", years)>>      ELSE <<>>)
    \o (IF Len(statuses) # 0 THEN <<InLiteral("status", statuses)>> ELSE <<>>)
    \o (IF Len(types) # 0    THEN <<InLiteral("type", types)>>      ELSE <<>>)

\* (variants of FilterOf: no null for zero conditions; one condition wrapped)
FilterOf_NeverNull(conditions) ==
    IF Len(conditions) = 1 THEN conditions[1] ELSE All(conditions)

FilterOf_AlwaysAll(conditions) ==
    IF Len(conditions) = 0 THEN NullFilter ELSE All(conditions)

FilterOf(conditions) ==
    IF Len(conditions) = 0 THEN NullFilter
    ELSE IF Len(conditions) = 1 THEN conditions[1]
    ELSE All(conditions)

Compile(years, statuses, types, stateName) ==
    FilterOf(Conditions(years, statuses, types, stateName))

\* The renderer's evaluation of a filter on one feature's properties.
MatchesCond(c, p) ==
    IF c.op = "==" THEN p[c.prop] = c.val
    ELSE \E i \in DOMAIN c.val : c.val[i] = p[c.prop]

Matches(f, p) ==
    IF f.op \in {"undefined", "null"} THEN TRUE
    ELSE IF f.op = "all" THEN \A i \in DOMAIN f.args : MatchesCond(f.args[i], p)
    ELSE MatchesCond(f, p)

\* queryRenderedFeatures({layers: ['project-points']}): the points the renderer
\* draws, i.e. inside the viewport, on a visible layer, passing the layer's filter.
\* (the bounding box of a region holds the points whose state is that region)
InView(p) == camera = None \/ p.state = ToUpperCase(camera[1].shapeName)

RenderedPoints ==
    IF mapLoaded /\ pointsVisibility = "visible"
    THEN {p \in Projects : Matches(pointsFilter, p) /\ InView(p)}
    ELSE {}

\* (variant of ApplyFilter: returns early when there is no condition)
ApplyFilter_SkipsEmpty(years, statuses, types, stateName) ==
    IF ~mapLoaded \/ Conditions(years, statuses, types, stateName) = <<>>
    THEN UNCHANGED <<pointsFilter, sampleTimers, pointCount>>
    ELSE /\ pointsFilter' = Compile(years, statuses, types, stateName)
         /\ sampleTimers' = sampleTimers + 1
         /\ UNCHANGED pointCount

\* (variant of ApplyFilter: the count is taken in the call itself, from the
\* frame drawn before the new filter is applied, as well as in the timer)
ApplyFilter_SamplesAtOnce(years, statuses, types, stateName) ==
    IF ~mapLoaded
    THEN UNCHANGED <<pointsFilter, sampleTimers, pointCount>>
    ELSE /\ pointsFilter' = Compile(years, statuses, types, stateName)
         /\ pointCount' = Some(Cardinality(RenderedPoints))
         /\ sampleTimers' = sampleTimers + 1

\* applyFilter: returns early while the layer does not exist, else sets the
\* filter and starts a 300 ms timer; it never writes pointCount itself.
ApplyFilter(years, statuses, types, stateName) ==
    IF ~mapLoaded
    THEN UNCHANGED <<pointsFilter, sampleTimers, pointCount>>
    ELSE /\ pointsFilter' = Compile(years, statuses, types, stateName)
         /\ sampleTimers' = sampleTimers + 1
         /\ UNCHANGED pointCount

\* ------------------------------------------------------------------ Init
\* The component after its first render and its mount effect: the map object
\* exists, its 'load' event has not fired yet.
\* (variant: the year state starts with a year already selected)
InitComponent_YearPreselected ==
    /\ view = "performance"
    /\ selectedYears = <<"2022">>
    /\ selectedStatus = <<>>
    /\ selectedTypes = <<>>
    /\ activeState = None
    /\ stateData = None
    /\ pointCount = None
    /\ mapReady = FALSE
    /\ mapLoaded = FALSE
    /\ handlerRegs = 0
    /\ pointsFilter = NoFilter
    /\ pointsVisibility = "visible"
    /\ choroplethVisibility = "none"
    /\ fillOpacity = 8
    /\ circleColor = "status"
    /\ hoverFilter = <<>>
    /\ cursor = ""
    /\ camera = None
    /\ initTimer = FALSE
    /\ sampleTimers = 0

InitComponent ==
    /\ view = "performance"
    /\ selectedYears = <<>>
    /\ selectedStatus = <<>>
    /\ selectedTypes = <<>>
    /\ activeState = None
    /\ stateData = None
    /\ pointCount = None
    /\ mapReady = FALSE
    /\ mapLoaded = FALSE
    /\ handlerRegs = 0
    /\ pointsFilter = NoFilter
    /\ pointsVisibility = "visible"
    /\ choroplethVisibility = "none"
    /\ fillOpacity = 8
    /\ circleColor = "status"
    /\ hoverFilter = <<>>
    /\ cursor = ""
    /\ camera = None
    /\ initTimer = FALSE
    /\ sampleTimers = 0

\* history of the toggles since the start or the last clearAll
NoToggles == [years |-> {}, statuses |-> {}, types |-> {}]
FlipIn(S, x) == IF x \in S THEN S \ {x} ELSE S \cup {x}

NoCompileIn == [years |-> <<>>, statuses |-> <<>>, types |-> <<>>, stateName |-> None]
NoEvalIn == [fn |-> "none"]

Init ==
    /\ InitComponent
    /\ lastOp = "mount"
    /\ scenario = 0
    /\ oddToggles = NoToggles
    /\ handledTwice = FALSE
    /\ compileIn = NoCompileIn
    /\ compileOut = None
    /\ evalIn = NoEvalIn
    /\ evalOut = None

\* ------------------------------------------------------------ scenario
\* The ready state nothing has been done in yet.
InitialReady ==
    /\ mapLoaded /\ mapReady /\ ~initTimer /\ sampleTimers = 0
    /\ view = "performance"
    /\ selectedYears = <<>> /\ selectedStatus = <<>> /\ selectedTypes = <<>>
    /\ activeState = None /\ stateData = None
    /\ pointsFilter = NoFilter /\ camera = None
    /\ pointsVisibility = "visible" /\ choroplethVisibility = "none"

\* scenario = n: the last n selection/view operations were the first n of
\*   toggle year "2022"; toggle status "ONGOING"; click region "LAGOS";
\*   click the empty area; clear all
\* the first of them done in the InitialReady state.
ScenarioNext(step) ==
    IF step = "toggleYear 2022" /\ InitialReady THEN 1
    ELSE IF step = "toggleStatus ONGOING" /\ scenario = 1 THEN 2
    ELSE IF step = "stateClick LAGOS" /\ scenario = 2 THEN 3
    ELSE IF step = "emptyClick" /\ scenario = 3 THEN 4
    ELSE IF step = "clearAll" /\ scenario = 4 THEN 5
    ELSE 0

\* ------------------------------------------------------- load and timers
\* map.on('load', ...): adds the sources and layers, starts the 500 ms timer
\* and registers every handler.
\* The map init effect runs again (a re-render whose dependency changed, or
\* the development double run): map.current is set, so it returns at once.
\* (variant: without that test a new map is made, whose 'load' fires again)
InitEffect_NoGuard ==
    /\ mapLoaded /\ handlerRegs < 2
    /\ mapLoaded' = FALSE
    /\ UNCHANGED <<reactVars, handlerRegs, pointsFilter, styleVars, hoverVars,
                   camera, timerVars, histVars, harnessVars>>

InitEffect == UNCHANGED vars

MapLoad ==
    /\ ~mapLoaded
    /\ mapLoaded' = TRUE
    /\ handlerRegs' = handlerRegs + 1
    /\ initTimer' = TRUE
    /\ UNCHANGED <<reactVars, pointsFilter, styleVars, hoverVars, camera,
                   sampleTimers, histVars, harnessVars>>

InitTimerFire ==
    /\ initTimer
    /\ pointCount' = Some(Cardinality(RenderedPoints))
    /\ mapReady' = TRUE
    /\ initTimer' = FALSE
    /\ UNCHANGED <<view, selVars, activeState, stateData, mapVars, pointsFilter,
                   styleVars, hoverVars, camera, sampleTimers, histVars, harnessVars>>

\* (variant: the callback counts the features of the source, not the rendered ones)
SampleTimerFire_CountsSource ==
    /\ sampleTimers > 0
    /\ pointCount' = Some(Cardinality(Projects))
    /\ sampleTimers' = sampleTimers - 1
    /\ UNCHANGED <<view, selVars, activeState, stateData, mapReady, mapVars,
                   pointsFilter, styleVars, hoverVars, camera, initTimer,
                   histVars, harnessVars>>

\* the callback of applyFilter's 300 ms timer
SampleTimerFire ==
    /\ sampleTimers > 0
    /\ pointCount' = Some(Cardinality(RenderedPoints))
    /\ sampleTimers' = sampleTimers - 1
    /\ UNCHANGED <<view, selVars, activeState, stateData, mapReady, mapVars,
                   pointsFilter, styleVars, hoverVars, camera, initTimer,
                   histVars, harnessVars>>

\* ------------------------------------------------------- filter panel
\* The toggle helpers are re-created on every render, so they read the state
\* of the latest render.  A handler that calls applyFilter can run only while
\* fewer than MaxTimers of its timers are pending.
TimerRoom == ~mapLoaded \/ sampleTimers < MaxTimers

ToggleYear(y) ==
    /\ TimerRoom
    /\ selectedYears' = Toggled(selectedYears, y)
    /\ ApplyFilter(selectedYears', selectedStatus, selectedTypes, activeState)
    /\ oddToggles' = [oddToggles EXCEPT !.years = FlipIn(@, y)]
    /\ handledTwice' = FALSE
    /\ lastOp' = "toggleYear"
    /\ scenario' = ScenarioNext(IF y = "2022" THEN "toggleYear 2022" ELSE "other")
    /\ UNCHANGED <<view, selectedStatus, selectedTypes, activeState, stateData,
                   mapReady, mapVars, styleVars, hoverVars, camera,
                   initTimer, harnessVars>>

ToggleStatus(st) ==
    /\ TimerRoom
    /\ selectedStatus' = Toggled(selectedStatus, st)
    /\ ApplyFilter(selectedYears, selectedStatus', selectedTypes, activeState)
    /\ oddToggles' = [oddToggles EXCEPT !.statuses = FlipIn(@, st)]
    /\ handledTwice' = FALSE
    /\ lastOp' = "toggleStatus"
    /\ scenario' = ScenarioNext(IF st = "ONGOING" THEN "toggleStatus ONGOING"
                                ELSE "other")
    /\ UNCHANGED <<view, selectedYears, selectedTypes, activeState, stateData,
                   mapReady, mapVars, styleVars, hoverVars, camera,
                   initTimer, harnessVars>>

ToggleType(t) ==
    /\ TimerRoom
    /\ selectedTypes' = Toggled(selectedTypes, t)
    /\ ApplyFilter(selectedYears, selectedStatus, selectedTypes', activeState)
    /\ oddToggles' = [oddToggles EXCEPT !.types = FlipIn(@, t)]
    /\ handledTwice' = FALSE
    /\ lastOp' = "toggleType"
    /\ scenario' = ScenarioNext("other")
    /\ UNCHANGED <<view, selectedYears, selectedStatus, activeState, stateData,
                   mapReady, mapVars, styleVars, hoverVars, camera,
                   initTimer, harnessVars>>

\* (variant: the active region is not cleared)
ClearAll_KeepsRegion ==
    /\ TimerRoom
    /\ selectedYears' = <<>>
    /\ selectedStatus' = <<>>
    /\ selectedTypes' = <<>>
    /\ ApplyFilter(<<>>, <<>>, <<>>, None)
    /\ camera' = None
    /\ oddToggles' = NoToggles
    /\ handledTwice' = FALSE
    /\ lastOp' = "clearAll"
    /\ scenario' = ScenarioNext("clearAll")
    /\ UNCHANGED <<view, activeState, stateData, mapReady, mapVars, styleVars, hoverVars,
                   initTimer, harnessVars>>

\* (variant: clearing the filters also goes back to the first view)
ClearAll_ResetsView ==
    /\ TimerRoom
    /\ selectedYears' = <<>>
    /\ selectedStatus' = <<>>
    /\ selectedTypes' = <<>>
    /\ activeState' = None
    /\ stateData' = None
    /\ view' = "performance"
    /\ ApplyFilter(<<>>, <<>>, <<>>, None)
    /\ camera' = None
    /\ oddToggles' = NoToggles
    /\ handledTwice' = FALSE
    /\ lastOp' = "clearAll"
    /\ scenario' = ScenarioNext("clearAll")
    /\ UNCHANGED <<mapReady, mapVars, styleVars, hoverVars,
                   initTimer, harnessVars>>

\* clearAll
ClearAll ==
    /\ TimerRoom
    /\ selectedYears' = <<>>
    /\ selectedStatus' = <<>>
    /\ selectedTypes' = <<>>
    /\ activeState' = None
    /\ stateData' = None
    /\ ApplyFilter(<<>>, <<>>, <<>>, None)
    /\ camera' = None
    /\ oddToggles' = NoToggles
    /\ handledTwice' = FALSE
    /\ lastOp' = "clearAll"
    /\ scenario' = ScenarioNext("clearAll")
    /\ UNCHANGED <<view, mapReady, mapVars, styleVars, hoverVars,
                   initTimer, harnessVars>>

\* the "x" of the active-region badge inside the filter panel
RegionBadgeClear ==
    /\ Truthy(activeState)
    /\ TimerRoom
    /\ activeState' = None
    /\ stateData' = None
    /\ ApplyFilter(selectedYears, selectedStatus, selectedTypes, None)
    /\ camera' = None
    /\ oddToggles' = oddToggles
    /\ handledTwice' = FALSE
    /\ lastOp' = "regionBadgeClear"
    /\ scenario' = ScenarioNext("other")
    /\ UNCHANGED <<view, selVars, mapReady, mapVars, styleVars,
                   hoverVars, initTimer, harnessVars>>

\* the "x" of the side panel, shown while showSidePanel holds
ShowSidePanel == Truthy(activeState) /\ stateData # None /\ view # "performance"

\* (variant: the panel's "x" clears the region and keeps its statistics)
SidePanelClose_KeepsStats ==
    /\ ShowSidePanel
    /\ activeState' = None
    /\ stateData' = stateData
    /\ oddToggles' = oddToggles
    /\ handledTwice' = FALSE
    /\ lastOp' = "sidePanelClose"
    /\ scenario' = ScenarioNext("other")
    /\ UNCHANGED <<view, selVars, pointCount, mapReady, mapVars, pointsFilter,
                   styleVars, hoverVars, camera, timerVars, harnessVars>>

SidePanelClose ==
    /\ ShowSidePanel
    /\ activeState' = None
    /\ stateData' = None
    /\ oddToggles' = oddToggles
    /\ handledTwice' = FALSE
    /\ lastOp' = "sidePanelClose"
    /\ scenario' = ScenarioNext("other")
    /\ UNCHANGED <<view, selVars, pointCount, mapReady, mapVars, pointsFilter,
                   styleVars, hoverVars, camera, timerVars, harnessVars>>

\* ------------------------------------------------------------ switchView
\* (variants of SwitchViewReact: the filters reset too; the region kept)
SwitchViewReact_ResetsFilters(newView) ==
    /\ view' = newView
    /\ activeState' = None
    /\ stateData' = None
    /\ selectedYears' = <<>> /\ selectedStatus' = <<>> /\ selectedTypes' = <<>>
    /\ UNCHANGED <<pointCount, mapReady>>

SwitchViewReact_KeepsRegion(newView) ==
    /\ view' = newView
    /\ UNCHANGED <<activeState, stateData, selVars, pointCount, mapReady>>

SwitchViewReact(newView) ==
    /\ view' = newView
    /\ activeState' = None
    /\ stateData' = None
    /\ UNCHANGED <<selVars, pointCount, mapReady>>

\* (variant: the status rule is not set again for the performance view)
SwitchViewStyle_KeepsColour(newView) ==
    /\ pointsVisibility' = (IF newView = "coverage" THEN "none" ELSE "visible")
    /\ choroplethVisibility' = (IF newView = "coverage" THEN "visible" ELSE "none")
    /\ fillOpacity' = (IF newView = "coverage" THEN 0 ELSE 8)
    /\ circleColor' = (IF newView = "technology" THEN "technology" ELSE circleColor)

\* (variant: the choropleth is toggled, the points are left as they are)
SwitchViewStyle_PointsUntouched(newView) ==
    /\ pointsVisibility' = pointsVisibility
    /\ choroplethVisibility' = (IF newView = "coverage" THEN "visible" ELSE "none")
    /\ fillOpacity' = (IF newView = "coverage" THEN 0 ELSE 8)
    /\ circleColor' = (IF newView = "performance" THEN "status"
                       ELSE IF newView = "technology" THEN "technology"
                       ELSE circleColor)

SwitchViewStyle(newView) ==
    /\ pointsVisibility' = (IF newView = "coverage" THEN "none" ELSE "visible")
    /\ choroplethVisibility' = (IF newView = "coverage" THEN "visible" ELSE "none")
    /\ fillOpacity' = (IF newView = "coverage" THEN 0 ELSE 8)
    /\ circleColor' = (IF newView = "performance" THEN "status"
                       ELSE IF newView = "technology" THEN "technology"
                       ELSE circleColor)

SwitchView(newView) ==
    /\ oddToggles' = oddToggles
    /\ handledTwice' = FALSE
    /\ lastOp' = (IF mapReady THEN "switchView" ELSE "switchViewNotReady")
    /\ scenario' = ScenarioNext("other")
    /\ IF ~mapReady
       THEN UNCHANGED <<reactVars, styleVars>>
       ELSE SwitchViewReact(newView) /\ SwitchViewStyle(newView)
    /\ UNCHANGED <<mapVars, pointsFilter, hoverVars, camera, timerVars, harnessVars>>

\* --------------------------------------------------- handlers on the map
\* All of them are registered in the load callback.  A layer's handlers are
\* called only for what the layer draws: 'state-fill' is always drawn (in
\* coverage with opacity 0), 'state-choropleth' only while it is visible.
RegionLayers == {"state-fill", "state-choropleth"}

Delivers(layer) ==
    /\ mapLoaded
    /\ layer = "state-choropleth" => choroplethVisibility = "visible"

\* What the nested updaters setSelectedYears(y => setSelectedStatus(s =>
\* setSelectedTypes(t => ...))) hand to applyFilter: the state at the time the
\* handler runs, not the empty arrays of the render the handler was created in.
\* (variant: the values of the first render's scope)
UpdaterArgs_StaleClosure ==
    [years |-> <<>>, statuses |-> <<>>, types |-> <<>>]

UpdaterArgs ==
    [years |-> selectedYears, statuses |-> selectedStatus, types |-> selectedTypes]

\* (variant: toUpperCase forgotten)
StateName_NotUpperCased(props) == props.shapeName

StateName(props) == ToUpperCase(props.shapeName)

\* (variant: a click on the region already active deselects it)
StateClick_TogglesRegion(layer, props) ==
    LET again == activeState = Some(StateName(props))
        next  == IF again THEN None ELSE Some(StateName(props))
    IN  /\ Delivers(layer)
        /\ TimerRoom
        /\ activeState' = next
        /\ stateData' = (IF again THEN None ELSE Some(props))
        /\ camera' = Some(props)
        /\ ApplyFilter(UpdaterArgs.years, UpdaterArgs.statuses, UpdaterArgs.types,
                       next)
        /\ oddToggles' = oddToggles
        /\ handledTwice' = (lastOp = "stateClick" /\ camera = Some(props))
        /\ lastOp' = "stateClick"
        /\ scenario' = ScenarioNext(IF StateName(props) = <<"L","A","G","O","S">>
                                    THEN "stateClick LAGOS" ELSE "other")
        /\ UNCHANGED <<view, selVars, mapReady, mapVars, styleVars,
                       hoverVars, initTimer, harnessVars>>

\* handleStateClick
StateClick(layer, props) ==
    /\ Delivers(layer)
    /\ TimerRoom
    /\ activeState' = Some(StateName(props))
    /\ stateData' = Some(props)
    /\ camera' = Some(props)
    /\ ApplyFilter(UpdaterArgs.years, UpdaterArgs.statuses, UpdaterArgs.types,
                   Some(StateName(props)))
    /\ oddToggles' = oddToggles
    /\ handledTwice' = (lastOp = "stateClick" /\ camera = Some(props))
    /\ lastOp' = "stateClick"
    /\ scenario' = ScenarioNext(IF StateName(props) = <<"L","A","G","O","S">>
                                THEN "stateClick LAGOS" ELSE "other")
    /\ UNCHANGED <<view, selVars, mapReady, mapVars, styleVars,
                   hoverVars, initTimer, harnessVars>>

\* The layer-less click handler.  hits: the layers among 'state-fill',
\* 'state-choropleth' and 'project-points' in which queryRenderedFeatures
\* finds a feature under the pointer.
ClickTargets ==
    {h \in SUBSET (RegionLayers \cup {"project-points"}) :
        /\ "state-choropleth" \in h <=>
               ("state-fill" \in h /\ choroplethVisibility = "visible")
        /\ "project-points" \in h => RenderedPoints # {}}

\* (variant: the test of hits.length forgotten)
NoHits_Ignored(hits) == TRUE

NoHits(hits) == hits = {}

MapClick(hits) ==
    /\ mapLoaded
    /\ TimerRoom
    /\ oddToggles' = oddToggles
    /\ handledTwice' = FALSE
    /\ lastOp' = (IF hits = {} THEN "emptyClick" ELSE "hitClick")
    /\ scenario' = ScenarioNext(IF hits = {} THEN "emptyClick" ELSE "other")
    /\ IF NoHits(hits)
       THEN /\ activeState' = None
            /\ stateData' = None
            /\ ApplyFilter(UpdaterArgs.years, UpdaterArgs.statuses,
                           UpdaterArgs.types, None)
       ELSE UNCHANGED <<activeState, stateData, pointsFilter, sampleTimers,
                        pointCount>>
    /\ UNCHANGED <<view, selVars, mapReady, mapVars, styleVars,
                   hoverVars, camera, initTimer, harnessVars>>

\* click on 'project-points': opens a popup, touches no state
PointClick ==
    /\ mapLoaded
    /\ RenderedPoints # {}
    /\ UNCHANGED vars

\* mousemove / mouseleave on 'state-fill' and 'state-choropleth'
\* What the handlers make of <<hoverFilter, cursor>>.
\* (variant: mousemove switches the highlight of the region on and off)
OnMouseMove_Toggles(hover, props) ==
    IF hover[1] = props.shapeName THEN <<<<>>, "pointer">>
    ELSE <<props.shapeName, "pointer">>

OnMouseMove(hover, props) == <<props.shapeName, "pointer">>

OnMouseLeave(hover) == <<<<>>, "">>

MouseMove(layer, props) ==
    /\ Delivers(layer)
    /\ hoverFilter' = OnMouseMove(hoverVars, props)[1]
    /\ cursor' = OnMouseMove(hoverVars, props)[2]
    /\ UNCHANGED <<reactVars, mapVars, pointsFilter, styleVars, camera,
                   timerVars, histVars, harnessVars>>

MouseLeave(layer) ==
    /\ Delivers(layer)
    /\ hoverFilter' = OnMouseLeave(hoverVars)[1]
    /\ cursor' = OnMouseLeave(hoverVars)[2]
    /\ UNCHANGED <<reactVars, mapVars, pointsFilter, styleVars, camera,
                   timerVars, histVars, harnessVars>>

\* mouseenter / mouseleave on 'project-points'
PointMouseEnter ==
    /\ mapLoaded
    /\ RenderedPoints # {}
    /\ cursor' = "pointer"
    /\ UNCHANGED <<reactVars, mapVars, pointsFilter, styleVars, hoverFilter,
                   camera, timerVars, histVars, harnessVars>>

PointMouseLeave ==
    /\ mapLoaded
    /\ RenderedPoints # {}
    /\ cursor' = ""
    /\ UNCHANGED <<reactVars, mapVars, pointsFilter, styleVars, hoverFilter,
                   camera, timerVars, histVars, harnessVars>>

\* --------------------------------------------------------- specifications
\* Spec: every handler that reads or writes the selection, the view, the point
\* filter or the count.  The pointer handlers (Hover) write hoverFilter and
\* cursor only, which no other handler reads; SpecHover adds them.
Next ==
    \/ InitEffect
    \/ MapLoad
    \/ InitTimerFire
    \/ SampleTimerFire
    \/ \E y \in YearChips : ToggleYear(y)
    \/ \E st \in StatusChips : ToggleStatus(st)
    \/ \E t \in TypeChips : ToggleType(t)
    \/ ClearAll
    \/ RegionBadgeClear
    \/ SidePanelClose
    \/ \E v \in {VIEWS[i] : i \in DOMAIN VIEWS} : SwitchView(v)
    \/ \E layer \in RegionLayers, props \in StateFeatures : StateClick(layer, props)
    \/ \E hits \in ClickTargets : MapClick(hits)

Hover ==
    \/ \E layer \in RegionLayers, props \in StateFeatures : MouseMove(layer, props)
    \/ \E layer \in RegionLayers : MouseLeave(layer)
    \/ PointMouseEnter
    \/ PointMouseLeave
    \/ PointClick

Spec == Init /\ [][Next]_vars

NextHover == Next \/ Hover

SpecHover == Init /\ [][NextHover]_vars

\* ------------------------------------------- the compiler on its own
\* Every argument tuple applyFilter can be called with: duplicate-free arrays
\* of chips and null or an upper-cased region name.
Arrays(S) ==
    UNION {{a \in [1..n -> S] : \A i, j \in 1..n : a[i] = a[j] => i = j} :
           n \in 0..Cardinality(S)}

CompileInputs ==
    [years : Arrays(YearChips), statuses : Arrays(StatusChips),
     types : Arrays(TypeChips),
     stateName : {None} \cup {Some(StateName(r)) : r \in StateFeatures}]

CompileOf(in) == Compile(in.years, in.statuses, in.types, in.stateName)

InitCompile ==
    /\ InitComponent
    /\ lastOp = "mount"
    /\ scenario = 0
    /\ oddToggles = NoToggles
    /\ handledTwice = FALSE
    /\ compileIn \in CompileInputs
    /\ compileOut = None
    /\ evalIn = NoEvalIn
    /\ evalOut = None

CompileCall ==
    /\ compileOut = None
    /\ compileOut' = Some(CompileOf(compileIn))
    /\ UNCHANGED <<reactVars, mapVars, pointsFilter, styleVars, hoverVars,
                   camera, timerVars, histVars, compileIn, evalIn, evalOut>>

NextCompile == CompileCall

SpecCompile == InitCompile /\ [][NextCompile]_vars

\* ------------------------------------------------------------ properties
\* lastOp names the selection or view handler that ran last: every step into a
\* state with lastOp = "stateClick" is a StateClick step or a later step of a
\* timer, and likewise for the other handlers ("emptyClick" and "hitClick":
\* MapClick without and with hits; "switchView" and "switchViewNotReady":
\* SwitchView with mapReady true and false).
\* The conjuncts of a filter: none for null, itself for a bare condition, the
\* arguments of an 'all'.
ConjunctsOf(f) ==
    IF f.op \in {"undefined", "null"} THEN <<>>
    ELSE IF f.op = "all" THEN f.args
    ELSE <<f>>

Elems(a) == {a[i] : i \in DOMAIN a}

\* filter f restricts property prop to a list holding value v
Lists(f, prop, v) ==
    \E c \in Elems(ConjunctsOf(f)) : c.op = "in" /\ c.prop = prop /\ v \in Elems(c.val)

LAGOS == <<"L","A","G","O","S">>

IsUpperCased(name) == \A i \in DOMAIN name : name[i] \notin Elems(LowerLetters)

\* name is the shapeName of region r with every lower-case letter replaced by
\* its capital
UpperCasedNameOf(name, r) ==
    /\ Len(name) = Len(r.shapeName)
    /\ IsUpperCased(name)
    /\ \A i \in DOMAIN name :
          \/ name[i] = r.shapeName[i]
          \/ \E k \in DOMAIN LowerLetters :
                r.shapeName[i] = LowerLetters[k] /\ name[i] = UpperLetters[k]

\* C1: after a region click the filter of 'project-points' lists every value
\* the toggles have put into the selected years, statuses and types, although
\* the click handler was created when all three were empty.
C1_RegionClickSeesToggles ==
    lastOp = "stateClick" =>
        /\ \A y \in Elems(selectedYears) : Lists(pointsFilter, "year", y)
        /\ \A st \in Elems(selectedStatus) : Lists(pointsFilter, "status", st)
        /\ \A t \in Elems(selectedTypes) : Lists(pointsFilter, "type", t)

C1_Witness ==
    /\ lastOp = "stateClick"
    /\ selectedYears # <<>> /\ selectedStatus # <<>> /\ selectedTypes # <<>>

\* C2: along the scenario (toggle year 2022, toggle status ONGOING, click
\* LAGOS, click the empty area, clear all, begun in the initial ready state)
\* the applied filter is AND(year in [2022], status in [ONGOING]), then
\* AND(state = LAGOS, year in [2022], status in [ONGOING]), then again
\* AND(year in [2022], status in [ONGOING]), then null.
C2_Scenario ==
    LET yearCond   == InLiteral("year", <<"2022">>)
        statusCond == InLiteral("status", <<"ONGOING">>)
    IN  /\ scenario = 2 => pointsFilter = All(<<yearCond, statusCond>>)
        /\ scenario = 3 =>
              pointsFilter = All(<<EqGet("state", LAGOS), yearCond, statusCond>>)
        /\ scenario = 4 => pointsFilter = All(<<yearCond, statusCond>>)
        /\ scenario = 5 => pointsFilter = NullFilter

C2_Witness == scenario = 5 /\ lastOp = "clearAll"

\* a small universe of point features: every combination of region, year,
\* status and type, selectable or not
FeatureSpace ==
    [state : {StateName(r) : r \in StateFeatures} \cup {<<"O","Y","O">>},
     year : YearChips \cup {"2019"},
     status : StatusChips \cup {"COMPLETED"},
     type : TypeChips \cup {"TRAINING"}]

\* C3: compiled from three empty arrays and no region, the filter is null and
\* every feature passes it.
C3_EmptySelectionMatchesAll ==
    (compileOut # None /\ compileIn = NoCompileIn) =>
        /\ compileOut[1] = NullFilter
        /\ \A p \in FeatureSpace : Matches(compileOut[1], p)

C3_Witness == compileOut # None /\ compileIn = NoCompileIn

\* C4: the compiled filter has one conjunct per non-empty array plus one for a
\* present region; a single conjunct is the filter itself, two or more are
\* the arguments of an 'all'.
ActiveDimensions(in) ==
       (IF in.stateName # None THEN {EqGet("state", in.stateName[1])} ELSE {})
  \cup (IF in.years # <<>> THEN {InLiteral("year", in.years)} ELSE {})
  \cup (IF in.statuses # <<>> THEN {InLiteral("status", in.statuses)} ELSE {})
  \cup (IF in.types # <<>> THEN {InLiteral("type", in.types)} ELSE {})

C4_ConjunctCount ==
    compileOut # None =>
        LET f == compileOut[1]
            n == Cardinality(ActiveDimensions(compileIn))
        IN  /\ Len(ConjunctsOf(f)) = n
            /\ Elems(ConjunctsOf(f)) = ActiveDimensions(compileIn)
            /\ n = 1 => f.op \in {"==", "in"} /\ f \in ActiveDimensions(compileIn)
            /\ n >= 2 => f.op = "all"

C4_Witness ==
    /\ compileOut # None
    /\ compileIn.stateName # None /\ compileIn.years # <<>>
    /\ compileIn.statuses # <<>> /\ compileIn.types # <<>>

\* C5: the compiled filter accepts a feature iff each dimension is either
\* unrestricted (no region, empty array) or satisfied by the feature.
C5_EmptyDimensionUnrestricted ==
    compileOut # None =>
        \A p \in FeatureSpace :
            Matches(compileOut[1], p) <=>
                /\ compileIn.stateName = None \/ p.state = compileIn.stateName[1]
                /\ compileIn.years = <<>> \/ p.year \in Elems(compileIn.years)
                /\ compileIn.statuses = <<>> \/ p.status \in Elems(compileIn.statuses)
                /\ compileIn.types = <<>> \/ p.type \in Elems(compileIn.types)

C5_Witness ==
    /\ compileOut # None
    /\ compileIn.statuses = <<>> /\ compileIn.types = <<>>
    /\ compileIn.years # <<>> /\ compileIn.stateName # None

\* C6: equal argument tuples compile to equal filters, and two tuples of which
\* one has a dimension empty (or the region absent) where the other has not
\* compile to different filters.
Shape(in) ==
    <<in.stateName = None, in.years = <<>>, in.statuses = <<>>, in.types = <<>>>>

Views == {VIEWS[i] : i \in DOMAIN VIEWS}

\* C7: a region click sets activeState to the upper-cased name of the region
\* hit, stores the region's properties as stateData and applies the filter
\* compiled from the current years, statuses and types plus that name; it
\* leaves the three selections as they are; and activeState is always null or
\* an upper-cased region name.
C7_RegionClick ==
    /\ [](lastOp = "stateClick" =>
            \E r \in StateFeatures :
                /\ activeState # None /\ UpperCasedNameOf(activeState[1], r)
                /\ stateData = Some(r)
                /\ pointsFilter = Compile(selectedYears, selectedStatus,
                                          selectedTypes, activeState)
                /\ EqGet("state", activeState[1]) \in Elems(ConjunctsOf(pointsFilter)))
    /\ [](activeState = None \/
            \E r \in StateFeatures : UpperCasedNameOf(activeState[1], r))
    /\ [][lastOp' = "stateClick" => selVars' = selVars]_vars

C7_Witness ==
    /\ lastOp = "stateClick"
    /\ activeState = Some(LAGOS) /\ stateData = Some(Lagos)
    /\ selectedYears # <<>>

\* C8: a click that hits nothing sets activeState and stateData to null, leaves
\* the three selections as they are and applies the filter compiled from them
\* without a region; a click that hits a region or a point changes neither
\* activeState nor stateData nor the filter in this handler.
C8_EmptyAreaClick ==
    /\ [](lastOp = "emptyClick" =>
            /\ activeState = None /\ stateData = None
            /\ pointsFilter = Compile(selectedYears, selectedStatus,
                                      selectedTypes, None)
            /\ \A c \in Elems(ConjunctsOf(pointsFilter)) : c.prop # "state")
    /\ [][lastOp' = "emptyClick" => selVars' = selVars]_vars
    /\ [][lastOp' = "hitClick" =>
             /\ activeState' = activeState
             /\ stateData' = stateData
             /\ pointsFilter' = pointsFilter]_vars

C8_Witness ==
    /\ lastOp = "emptyClick"
    /\ camera # None /\ activeState = None
    /\ selectedYears # <<>>

\* C9: no switchView call changes the selected years, statuses or types.
C9_SwitchViewKeepsSelections ==
    [][lastOp' \in {"switchView", "switchViewNotReady"} => selVars' = selVars]_vars

C9_Witness ==
    /\ lastOp = "switchView" /\ view = "technology"
    /\ Len(selectedYears) = 2

\* C10: after a switchView made when the map was ready, activeState and
\* stateData are null and the side panel is not shown.
C10_SwitchViewClearsRegion ==
    lastOp = "switchView" =>
        /\ mapReady
        /\ activeState = None
        /\ stateData = None
        /\ ~ShowSidePanel

C10_Witness ==
    /\ lastOp = "switchView" /\ mapReady /\ view = "technology"
    /\ camera = Some(Lagos)
    /\ EqGet("state", LAGOS) \in Elems(ConjunctsOf(pointsFilter))

\* ------------------------------------------------------------ readiness
\* The renderer as map.on('load') leaves it: no filter on 'project-points'
\* and the layout and paint values the layers are added with.
RendererUntouched ==
    /\ pointsFilter = NoFilter
    /\ pointsVisibility = "visible"
    /\ choroplethVisibility = "none"
    /\ fillOpacity = 8
    /\ circleColor = "status"

\* C11: while mapReady is false no setFilter on 'project-points', no
\* setPaintProperty and no setLayoutProperty has been applied to the renderer.
C11_NoRendererOpBeforeReady == ~mapReady => RendererUntouched

\* C12: an operation that arrives while mapReady is false leaves the years,
\* statuses, types, the active region and the view as they were, so while
\* mapReady is false they still have their initial values.
C12_NotReadyIsNoOp ==
    ~mapReady =>
        /\ selVars = <<<<>>, <<>>, <<>>>>
        /\ activeState = None
        /\ stateData = None
        /\ view = "performance"

\* ------------------------------------------------------------ re-sampling
\* A timer callback ran: the 500 ms one or one of the 300 ms ones.
TimerFired == (initTimer /\ ~initTimer') \/ sampleTimers' < sampleTimers

\* C13: every step that changes the filter of 'project-points', the
\* visibility of a layer or the colouring of the points schedules a re-sample
\* (one more pending timer, whose callback publishes the count).
C13_ChangeSchedulesSample ==
    [][(mapLoaded /\ (pointsFilter' # pointsFilter \/ styleVars' # styleVars))
          => sampleTimers' = sampleTimers + 1]_vars

\* The step in which the last pending timer callback runs.
LastTimerFired == TimerFired /\ ~initTimer' /\ sampleTimers' = 0

\* The features that pass the filter now set on 'project-points'.
MatchingNow == {p \in Projects : Matches(pointsFilter, p)}

\* Those of them the renderer draws: none while the layer is hidden, and
\* only the ones inside the viewport.
DrawnNow ==
    {p \in MatchingNow :
        /\ pointsVisibility = "visible"
        /\ camera # None => p.state = ToUpperCase(camera[1].shapeName)}

\* C14 as stated: when the last pending sample has fired, pointCount is the
\* number of features that match the filter most recently applied.
C14_FinalCountIsMatchCount ==
    [][LastTimerFired => pointCount' = Some(Cardinality(MatchingNow'))]_vars

\* C14: when the last pending sample has fired, pointCount is the number of
\* features the renderer draws under the filter most recently applied (the
\* ones that match it, on a visible layer, inside the viewport); no count
\* taken under an earlier filter remains.
C14_FinalCountIsRenderedCount ==
    [][LastTimerFired => pointCount' = Some(Cardinality(DrawnNow'))]_vars

C14_Witness ==
    /\ mapReady /\ ~initTimer /\ sampleTimers = 0
    /\ lastOp = "toggleYear"
    /\ pointsFilter = All(<<EqGet("state", <<"L","A","G","O","S">>),
                            InLiteral("year", <<"2022">>)>>)
    /\ pointCount = Some(1)

\* C15: the step that sets a filter on 'project-points' (and starts a timer)
\* leaves pointCount as it was; pointCount changes only in a step in which a
\* timer callback runs.
C15_SampleIsDeferred ==
    [][/\ (pointsFilter' # pointsFilter \/ sampleTimers' > sampleTimers)
             => pointCount' = pointCount
       /\ pointCount' # pointCount => TimerFired]_vars

C15_Witness ==
    /\ mapReady /\ sampleTimers > 0
    /\ pointsFilter = InLiteral("year", <<"2022">>)
    /\ pointCount = Some(Cardinality(Projects))
    /\ Cardinality({p \in Projects : Matches(pointsFilter, p)}) < Cardinality(Projects)

\* ------------------------------------------------------------ view modes
\* C16: in every reachable state the choropleth layer is visible exactly when
\* the view is 'coverage', and the point layer is visible exactly when the
\* view is 'performance' or 'technology'.
C16_VisibilityFollowsView ==
    /\ choroplethVisibility = "visible" <=> view = "coverage"
    /\ pointsVisibility = "visible" <=> view \in {"performance", "technology"}
    /\ choroplethVisibility \in {"visible", "none"}
    /\ pointsVisibility \in {"visible", "none"}

C16_Witness ==
    /\ view = "coverage" /\ lastOp = "switchView"
    /\ choroplethVisibility = "visible" /\ pointsVisibility = "none"
    /\ selectedYears # <<>>

\* ----------------------------------------- circle-color of the technology view
\* The characters of the strings the colour rule reads: the tokens of TYPES,
\* the literals of the rule, and the words the legend is described with.
Chars ==
       ("GRID" :>
          <<"G","R","I","D">>)
    @@ ("SOLAR STREET LIGHT" :>
          <<"S","O","L","A","R"," ","S","T","R","E","E","T"," ","L","I","G",
            "H","T">>)
    @@ ("SOLAR MINI GRID" :>
          <<"S","O","L","A","R"," ","M","I","N","I"," ","G","R","I","D">>)
    @@ ("SOLAR HOME SYSTEM" :>
          <<"S","O","L","A","R"," ","H","O","M","E"," ","S","Y","S","T","E",
            "M">>)
    @@ ("SOLAR BOREHOLE" :>
          <<"S","O","L","A","R"," ","B","O","R","E","H","O","L","E">>)
    @@ ("SOLAR WATER PUMP" :>
          <<"S","O","L","A","R"," ","W","A","T","E","R"," ","P","U","M",
            "P">>)
    @@ ("SOLAR PUMPING MACHINE" :>
          <<"S","O","L","A","R"," ","P","U","M","P","I","N","G"," ","M","A",
            "C","H","I","N","E">>)
    @@ ("SOLAR IRRIGATION PUMP" :>
          <<"S","O","L","A","R"," ","I","R","R","I","G","A","T","I","O","N",
            " ","P","U","M","P">>)
    @@ ("INJECTION SUBSTATION" :>
          <<"I","N","J","E","C","T","I","O","N"," ","S","U","B","S","T","A",
            "T","I","O","N">>)
    @@ ("TRAINING" :>
          <<"T","R","A","I","N","I","N","G">>)
    @@ ("ELECTRIC VEHICLE" :>
          <<"E","L","E","C","T","R","I","C"," ","V","E","H","I","C","L",
            "E">>)
    @@ ("COUNTERPART FUNDING" :>
          <<"C","O","U","N","T","E","R","P","A","R","T"," ","F","U","N","D",
            "I","N","G">>)
    @@ ("VEHICLE PURCHASE" :>
          <<"V","E","H","I","C","L","E"," ","P","U","R","C","H","A","S",
            "E">>)
    @@ ("HQRTS" :>
          <<"H","Q","R","T","S">>)
    @@ ("GRID/SOLAR STREET LIGHT" :>
          <<"G","R","I","D","/","S","O","L","A","R"," ","S","T","R","E","E",
            "T"," ","L","I","G","H","T">>)
    @@ ("GRID/SOLAR HOME SYSTEM" :>
          <<"G","R","I","D","/","S","O","L","A","R"," ","H","O","M","E"," ",
            "S","Y","S","T","E","M">>)
    @@ ("GRID/SOLAR MINI GRID" :>
          <<"G","R","I","D","/","S","O","L","A","R"," ","M","I","N","I"," ",
            "G","R","I","D">>)
    @@ ("SOLAR MINI GRID/SOLAR STREET LIGHT" :>
          <<"S","O","L","A","R"," ","M","I","N","I"," ","G","R","I","D","/",
            "S","O","L","A","R"," ","S","T","R","E","E","T"," ","L","I","G",
            "H","T">>)
    @@ ("SOLAR STREET LIGHT/SOLAR HOME SYSTEM" :>
          <<"S","O","L","A","R"," ","S","T","R","E","E","T"," ","L","I","G",
            "H","T","/","S","O","L","A","R"," ","H","O","M","E"," ","S","Y",
            "S","T","E","M">>)
    @@ ("MINI GRID" :>
          <<"M","I","N","I"," ","G","R","I","D">>)
    @@ ("SOLAR HOME" :>
          <<"S","O","L","A","R"," ","H","O","M","E">>)
    @@ ("street light" :>
          <<"s","t","r","e","e","t"," ","l","i","g","h","t">>)
    @@ ("mini grid" :>
          <<"m","i","n","i"," ","g","r","i","d">>)
    @@ ("home" :>
          <<"h","o","m","e">>)
    @@ ("grid" :>
          <<"g","r","i","d">>)

\* TECH_COLORS, the legend of the technology view
TECH_COLORS ==
    [name \in {"SOLAR STREET LIGHT", "GRID", "SOLAR MINI GRID",
               "SOLAR HOME SYSTEM", "OTHER"} |->
        CASE name = "SOLAR STREET LIGHT" -> "#f39c12"
          [] name = "GRID"               -> "#E63946"
          [] name = "SOLAR MINI GRID"    -> "#3498db"
          [] name = "SOLAR HOME SYSTEM"  -> "#9b59b6"
          [] name = "OTHER"              -> "#95a5a6"]

\* ['in', needle, string] of a Mapbox expression: needle is a substring
In(needle, hay) ==
    \E i \in 0..(Len(hay) - Len(needle)) :
        \A j \in 1..Len(needle) : hay[i + j] = needle[j]

\* (variant: the first branch without its "not MINI GRID" condition)
TechColor_NoMiniGridGuard(type) ==
    IF In(Chars["SOLAR STREET LIGHT"], type) THEN "#f39c12"
    ELSE IF In(Chars["MINI GRID"], type) THEN "#3498db"
    ELSE IF In(Chars["SOLAR HOME"], type) THEN "#9b59b6"
    ELSE IF In(Chars["GRID"], type) THEN "#E63946"
    ELSE "#95a5a6"

\* the 'case' expression switchView sets as 'circle-color', evaluated on the
\* characters of a feature's type
TechColor(type) ==
    IF In(Chars["SOLAR STREET LIGHT"], type) /\ ~In(Chars["MINI GRID"], type)
    THEN "#f39c12"
    ELSE IF In(Chars["MINI GRID"], type) THEN "#3498db"
    ELSE IF In(Chars["SOLAR HOME"], type) THEN "#9b59b6"
    ELSE IF In(Chars["GRID"], type) THEN "#E63946"
    ELSE "#95a5a6"

\* ------------------------------------------------------------------- pct
\* JS numbers are IEEE 754 doubles.  For the positive values pct meets, a
\* double is [bits, exp]: 0.b1 b2 ... b53 times 2^exp with b1 = 1; Zero is 0.
MantissaBits == 53
Zero == [bits |-> <<>>, exp |-> 0]

RECURSIVE BinaryOf(_)
BinaryOf(n) == IF n = 0 THEN <<>> ELSE Append(BinaryOf(n \div 2), n % 2)

RECURSIVE ValueOf(_)
ValueOf(bits) ==
    IF bits = <<>> THEN 0
    ELSE 2 * ValueOf(SubSeq(bits, 1, Len(bits) - 1)) + bits[Len(bits)]

\* the first k binary places of r / t, for r < t, and what is left after them
RECURSIVE QuotientBits(_, _, _)
QuotientBits(r, t, k) ==
    IF k = 0 THEN <<>>
    ELSE <<(2 * r) \div t>> \o QuotientBits((2 * r) % t, t, k - 1)

RECURSIVE QuotientRest(_, _, _)
QuotientRest(r, t, k) ==
    IF k = 0 THEN r ELSE QuotientRest((2 * r) % t, t, k - 1)

\* bits + 1 for bits that are not all 1
PlusOne(bits) ==
    LET z == CHOOSE i \in DOMAIN bits :
                 bits[i] = 0 /\ \A j \in DOMAIN bits : j > i => bits[j] = 1
    IN  [i \in DOMAIN bits |-> IF i < z THEN bits[i] ELSE IF i = z THEN 1 ELSE 0]

\* b with zeros in front, k digits long
Padded(b, k) ==
    [i \in 1..k |-> IF i <= k - Len(b) THEN 0 ELSE b[i - (k - Len(b))]]

\* bits * c + carry in binary, worked out 16 digits at a time
RECURSIVE TimesSmall(_, _, _)
TimesSmall(bits, c, carry) ==
    IF bits = <<>> THEN BinaryOf(carry)
    ELSE LET k == IF Len(bits) < 16 THEN Len(bits) ELSE 16
             v == ValueOf(SubSeq(bits, Len(bits) - k + 1, Len(bits))) * c + carry
         IN  TimesSmall(SubSeq(bits, 1, Len(bits) - k), c, v \div 2^k)
                 \o Padded(BinaryOf(v % 2^k), k)

\* The double nearest to a binary numeral (ties to even).  digits: the
\* numeral, point: how many of its digits stand before the binary point,
\* inexact: non-zero digits follow the ones given.
Rounded(digits, point, inexact) ==
    LET ones == {i \in DOMAIN digits : digits[i] = 1}
    IN  IF ones = {} THEN Zero
        ELSE LET f == CHOOSE i \in ones : \A j \in ones : i <= j
                 bit(i) == IF i <= Len(digits) THEN digits[i] ELSE 0
                 mant == [i \in 1..MantissaBits |-> bit(f + i - 1)]
                 guard == bit(f + MantissaBits)
                 sticky == inexact \/ \E i \in ones : i > f + MantissaBits
                 up == guard = 1 /\ (sticky \/ mant[MantissaBits] = 1)
                 exp == point - (f - 1)
             IN  IF ~up THEN [bits |-> mant, exp |-> exp]
                 ELSE IF \A i \in 1..MantissaBits : mant[i] = 1
                 THEN [bits |-> [i \in 1..MantissaBits |-> IF i = 1 THEN 1 ELSE 0],
                       exp |-> exp + 1]
                 ELSE [bits |-> PlusOne(mant), exp |-> exp]

\* n / t for integers n >= 0 and t > 0
Divide(n, t) ==
    LET whole  == BinaryOf(n \div t)
        places == MantissaBits + 1 + Len(BinaryOf(t))
    IN  Rounded(whole \o QuotientBits(n % t, t, places), Len(whole),
                QuotientRest(n % t, t, places) # 0)

\* x * c for a double x and a small integer c
Multiply(x, c) ==
    IF x = Zero THEN Zero
    ELSE LET product == TimesSmall(x.bits, c, 0)
         IN  Rounded(product, Len(product) + x.exp - MantissaBits, FALSE)

\* Math.round of a double x >= 0: the nearest integer, halves upwards
MathRound(x) ==
    IF x = Zero \/ x.exp < 0 THEN 0
    ELSE IF x.exp = 0 THEN 1
    ELSE ValueOf(SubSeq(x.bits, 1, x.exp)) + x.bits[x.exp + 1]

\* pct = (num, total) => total ? Math.round((num / total) * 100) : 0
\* on JS values: Some(n) is the number n, None is undefined or NaN.
pct(num, total) ==
    IF total = None \/ total = Some(0) THEN Some(0)
    ELSE IF num = None THEN None
    ELSE Some(MathRound(Multiply(Divide(num[1], total[1]), 100)))

\* ------------------------------ the colour rule and pct on their own
\* Inputs: every token of TYPES for the colour rule; for pct every pair of
\* undefined/NaN or a count up to MaxCount.
MaxCount == 40

Counts == {None} \cup {Some(n) : n \in 0..MaxCount}

EvalInputs ==
    {[fn |-> "color", type |-> TYPES[i]] : i \in DOMAIN TYPES}
        \cup {[fn |-> "pct", num |-> a, total |-> b] : a \in Counts, b \in Counts}

InitEval ==
    /\ InitComponent
    /\ lastOp = "mount"
    /\ scenario = 0
    /\ oddToggles = NoToggles
    /\ handledTwice = FALSE
    /\ compileIn = NoCompileIn
    /\ compileOut = None
    /\ evalIn \in EvalInputs
    /\ evalOut = None

\* the renderer evaluates 'circle-color' for a feature of the given type
PaintFeature ==
    /\ evalIn.fn = "color"
    /\ evalOut = None
    /\ evalOut' = Some(TechColor(Chars[evalIn.type]))
    /\ UNCHANGED <<reactVars, mapVars, pointsFilter, styleVars, hoverVars,
                   camera, timerVars, histVars, compileIn, compileOut, evalIn>>

PctCall ==
    /\ evalIn.fn = "pct"
    /\ evalOut = None
    /\ evalOut' = Some(pct(evalIn.num, evalIn.total))
    /\ UNCHANGED <<reactVars, mapVars, pointsFilter, styleVars, hoverVars,
                   camera, timerVars, histVars, compileIn, compileOut, evalIn>>

NextEval == PaintFeature \/ PctCall

SpecEval == InitEval /\ [][NextEval]_vars

\* The colour the legend gives a token, by the words it contains.
LegendColor(token) ==
    LET has(word) == In(ToUpperCase(Chars[word]), Chars[token])
    IN  IF has("street light") /\ ~has("mini grid")
        THEN TECH_COLORS["SOLAR STREET LIGHT"]
        ELSE IF has("mini grid") THEN TECH_COLORS["SOLAR MINI GRID"]
        ELSE IF has("home") THEN TECH_COLORS["SOLAR HOME SYSTEM"]
        ELSE IF has("grid") THEN TECH_COLORS["GRID"]
        ELSE TECH_COLORS["OTHER"]

\* C17: for every token of TYPES the technology colour is decided in this
\* order: "street light" without "mini grid" gives the street-light colour,
\* else "mini grid" the mini-grid colour, else "home" the home-system
\* colour, else "grid" the grid colour, else the fallback; so
\* 'SOLAR MINI GRID/SOLAR STREET LIGHT' has the mini-grid colour and
\* 'GRID/SOLAR STREET LIGHT' the street-light colour.
C17_TechnologyColourPrecedence ==
    (evalIn.fn = "color" /\ evalOut # None) =>
        /\ evalOut[1] = LegendColor(evalIn.type)
        /\ evalIn.type = "SOLAR MINI GRID/SOLAR STREET LIGHT"
               => evalOut[1] = TECH_COLORS["SOLAR MINI GRID"]
        /\ evalIn.type = "GRID/SOLAR STREET LIGHT"
               => evalOut[1] = TECH_COLORS["SOLAR STREET LIGHT"]

C17_Witness ==
    /\ evalIn = [fn |-> "color", type |-> "SOLAR MINI GRID/SOLAR STREET LIGHT"]
    /\ evalOut = Some("#3498db")

\* The integer nearest to 100 * value / total, a half counted upwards.
NearestPercent(value, total) ==
    CHOOSE r \in 0..(100 * value + 1) :
        2 * total * r - total <= 200 * value /\ 200 * value < 2 * total * r + total

\* C18: pct(value, total) is 0 when total is 0, whatever value is, and for
\* total > 0 it is 100 * value / total rounded to the nearest integer.
C18_PctIsRoundedShare ==
    (evalIn.fn = "pct" /\ evalOut # None /\ evalIn.total # None) =>
        /\ evalIn.total = Some(0) => evalOut[1] = Some(0)
        /\ (evalIn.total[1] > 0 /\ evalIn.num # None) =>
               evalOut[1] = Some(NearestPercent(evalIn.num[1], evalIn.total[1]))

\* ------------------------------------------------------------ side panel
\* d.field of a feature's properties: Some(value), or None for undefined
Field(d, f) == IF f \in DOMAIN d THEN Some(d[f]) ELSE None

\* What React puts on the page.  {v}: nothing for undefined, the text NaN
\* for NaN; `${v}%`: the text "undefined%" for undefined.
Blank == [shown |-> "blank"]
Shown(n) == [shown |-> "number", value |-> n]
Jsx(v) == IF v = None THEN Blank ELSE Shown(v[1])
JsxNumber(v) == IF v = None THEN [shown |-> "NaN"] ELSE Shown(v[1])
TemplatePercent(v) == IF v = None THEN [shown |-> "undefined%"] ELSE Shown(v[1])

TechFields == {"solar_street_light", "grid", "solar_mini_grid",
               "solar_home_system", "other_type"}

\* PieChart: null when the sum of the values is 0 or NaN
PieChart(data) ==
    IF \E k \in TechFields : data[k] = None THEN "null"
    ELSE IF data["solar_street_light"][1] + data["grid"][1]
                + data["solar_mini_grid"][1] + data["solar_home_system"][1]
                + data["other_type"][1] = 0
         THEN "null"
         ELSE "svg"

\* renderSidePanel for the given view; Number(undefined) is NaN
RenderSidePanel(v) ==
    IF ~Truthy(activeState) \/ stateData = None THEN [kind |-> "null"]
    ELSE LET d == stateData[1]
         IN  IF v = "coverage"
             THEN [kind |-> "coverage",
                   displayName |-> activeState[1],
                   total |-> Jsx(Field(d, "total")),
                   pct_completed |-> TemplatePercent(Field(d, "pct_completed")),
                   completed |-> Jsx(Field(d, "completed")),
                   ongoing |-> Jsx(Field(d, "ongoing")),
                   yet_to_mobilize |-> Jsx(Field(d, "yet_to_mobilize"))]
             ELSE IF v = "technology"
             THEN LET techData == [k \in TechFields |-> Field(d, k)]
                  IN  [kind |-> "technology",
                       displayName |-> activeState[1],
                       pie |-> PieChart(techData),
                       shares |-> [k \in TechFields |->
                                      JsxNumber(pct(techData[k], Field(d, "total")))],
                       total |-> Jsx(Field(d, "total"))]
             ELSE [kind |-> "null"]

\* A region polygon without aggregate fields.
Miss(props) == DOMAIN props = {"shapeName"}

\* What the panel shows: numbers and empty places only.
NoDataShown(panel) ==
    /\ panel.kind = "coverage" =>
          \A f \in {"total", "pct_completed", "completed", "ongoing",
                    "yet_to_mobilize"} : panel[f] = Blank
    /\ panel.kind = "technology" =>
          /\ panel.pie = "null"
          /\ panel.total = Blank
          /\ \A k \in TechFields : panel.shares[k].shown \in {"blank", "number"}

\* C19: after a click on a region without aggregate fields the active region
\* is set, the filter has been recomputed with it, and the side panel of the
\* current view renders a defined no-data result: empty places and numbers,
\* no text made from undefined or NaN.
C19_MissIsNoData ==
    (lastOp = "stateClick" /\ stateData # None /\ Miss(stateData[1])) =>
        /\ activeState = Some(ToUpperCase(stateData[1].shapeName))
        /\ EqGet("state", activeState[1]) \in Elems(ConjunctsOf(pointsFilter))
        /\ NoDataShown(RenderSidePanel(view))

\* ------------------------------------------------------------------ hover
\* C20: a step that changes the hover filter or the cursor changes nothing
\* else (not the years, statuses, types, active region, view, the filter of
\* 'project-points' or pointCount), and handling a mousemove or a mouseleave
\* a second time gives the hover filter and cursor the first handling gave.
C20_HoverStatelessIdempotent ==
    /\ [][hoverVars' # hoverVars =>
             UNCHANGED <<reactVars, mapVars, pointsFilter, styleVars, camera,
                         timerVars>>]_vars
    /\ [](\A props \in StateFeatures :
             /\ OnMouseMove(OnMouseMove(hoverVars, props), props)
                    = OnMouseMove(hoverVars, props)
             /\ OnMouseLeave(OnMouseLeave(hoverVars)) = OnMouseLeave(hoverVars))

C20_Witness ==
    /\ hoverFilter = Lagos.shapeName /\ cursor = "pointer"
    /\ selectedYears # <<>> /\ activeState = Some(<<"K","A","N","O">>)
    /\ view = "technology" /\ pointCount = Some(1)

\* ------------------------------------------------------------ view mode
\* C21: the view changes only in a step of switchView made when the map is
\* ready (a step that touches neither the selection, nor the filter of
\* 'project-points', nor the timers, nor the count, nor the hover state), and
\* in a ready map switchView can take the view to each of the three modes.
C21_ViewChangesOnlyBySwitchView ==
    /\ [][view' # view =>
             /\ lastOp' = "switchView" /\ mapReady
             /\ UNCHANGED <<selVars, pointCount, mapVars, pointsFilter,
                            hoverVars, camera, timerVars>>]_vars
    /\ [](mapReady => \A v \in Views : ENABLED (SwitchView(v) /\ view' = v))

C21_Witness ==
    /\ lastOp = "switchView" /\ view = "coverage"
    /\ hoverFilter # <<>> /\ selectedStatus # <<>> /\ sampleTimers > 0

\* ------------------------------------------------------------ session start
\* C22: as long as no selection or view handler has run, the years, statuses
\* and types are empty, there is no active region and no region stats, and
\* 'project-points' has no filter; so the session starts with these values,
\* and the load callback and the count timers keep them.
C22_StartsEmpty ==
    lastOp = "mount" =>
        /\ selectedYears = <<>> /\ selectedStatus = <<>> /\ selectedTypes = <<>>
        /\ activeState = None
        /\ stateData = None
        /\ pointsFilter = NoFilter
        /\ Projects = {p \in Projects : Matches(pointsFilter, p)}

C22_Witness ==
    /\ lastOp = "mount" /\ mapReady
    /\ pointCount = Some(Cardinality(Projects))

\* ------------------------------------------------- filter and selection
\* The filter of 'project-points' is the one compiled from the current years,
\* statuses, types and active region (a layer without filter counting as the
\* null filter); in particular without active region it has no region conjunct.
FilterConsistent ==
    /\ (IF pointsFilter = NoFilter THEN NullFilter ELSE pointsFilter)
           = Compile(selectedYears, selectedStatus, selectedTypes, activeState)
    /\ activeState = None =>
           \A c \in Elems(ConjunctsOf(pointsFilter)) : c.prop # "state"

\* C23: every operation that completes in a ready map leaves the filter of
\* 'project-points' equal to the compilation of the selection it leaves; so
\* from a ready state in which they agree every step leads to one in which
\* they agree.
C23_FilterIsCompiledSelection ==
    [][(mapReady /\ FilterConsistent) => FilterConsistent']_vars

\* ------------------------------------------------------------ registration
\* C24: the click, hover and pointer handlers are registered once, by the
\* load callback, and never again: the number of registrations is 0 before
\* 'load' and 1 ever after.
C24_HandlersRegisteredOnce ==
    /\ handlerRegs = (IF mapLoaded THEN 1 ELSE 0)
    /\ (hoverFilter # <<>> \/ activeState # None) => handlerRegs = 1

C24_Witness ==
    /\ handlerRegs = 1 /\ view = "technology" /\ lastOp = "stateClick"
    /\ hoverFilter # <<>> /\ Len(selectedYears) = 2

\* ------------------------------------------------------------ clearAll
\* C25: a clearAll made when the map is ready leaves the years, statuses and
\* types empty, no active region and no region stats, and the null filter on
\* 'project-points', whatever they were before; it leaves the view and the
\* visibility of the layers as they were.
C25_ClearAllResetsSelection ==
    [][(mapReady /\ lastOp' = "clearAll" /\ sampleTimers' > sampleTimers) =>
          /\ selVars' = <<<<>>, <<>>, <<>>>>
          /\ activeState' = None
          /\ stateData' = None
          /\ pointsFilter' = NullFilter
          /\ view' = view
          /\ pointsVisibility' = pointsVisibility
          /\ choroplethVisibility' = choroplethVisibility]_vars

C25_Witness ==
    /\ lastOp = "clearAll" /\ mapReady /\ view = "coverage"
    /\ pointsFilter = NullFilter /\ selVars = <<<<>>, <<>>, <<>>>>
    /\ activeState = None /\ choroplethVisibility = "visible"

\* ------------------------------------------------------------ toggles
\* the features a filter lets through
Passing(f) == {p \in FeatureSpace : Matches(f, p)}

\* C26: since the start (or the last clearAll) each dimension's selection
\* holds exactly the values toggled an odd number of times; and toggling a
\* value twice gives back the same set of selected values and a filter that
\* lets the same features through (the comparison depends on the selection
\* and the region only; it is made in the states a year toggle has produced,
\* once no sample is pending, which hold every selection there is).
C26_NoToggleLost ==
    /\ Elems(selectedYears) = oddToggles.years
    /\ Elems(selectedStatus) = oddToggles.statuses
    /\ Elems(selectedTypes) = oddToggles.types
    /\ (lastOp = "toggleYear" /\ sampleTimers = 0) => \A y \in YearChips :
          LET twice == Toggled(Toggled(selectedYears, y), y)
          IN  /\ Elems(twice) = Elems(selectedYears)
              /\ Passing(Compile(twice, selectedStatus, selectedTypes, activeState))
                   = Passing(Compile(selectedYears, selectedStatus, selectedTypes,
                                     activeState))
    /\ \A st \in StatusChips :
          Elems(Toggled(Toggled(selectedStatus, st), st)) = Elems(selectedStatus)
    /\ \A t \in TypeChips :
          Elems(Toggled(Toggled(selectedTypes, t), t)) = Elems(selectedTypes)

C26_Witness ==
    /\ selectedYears = <<"2023", "2022">>
    /\ oddToggles.years = {"2022", "2023"}
    /\ oddToggles.statuses = {} /\ selectedStatus = <<>>
    /\ lastOp = "toggleStatus"

\* ------------------------------------------------------------ colouring
\* STATUS_COLORS, the legend of the performance view
STATUS_COLORS ==
    [name \in {"COMPLETED", "ONGOING", "YET TO MOBILIZE", ""} |->
        CASE name = "COMPLETED"       -> "#2ecc71"
          [] name = "ONGOING"         -> "#f39c12"
          [] name = "YET TO MOBILIZE" -> "#E63946"
          [] name = ""                -> "#333333"]

\* the 'match' expression on status the layer is added with and switchView
\* sets again for the performance view
StatusColor(status) ==
    CASE status = "COMPLETED"       -> "#2ecc71"
      [] status = "ONGOING"         -> "#f39c12"
      [] status = "YET TO MOBILIZE" -> "#E63946"
      [] OTHER                      -> "#333333"

\* the colour 'project-points' draws a feature with under the rule in effect
CircleColorOf(p) ==
    IF circleColor = "status" THEN StatusColor(p.status)
    ELSE TechColor(Chars[p.type])

\* C27: in the performance view the points are coloured by the status rule
\* (the three status colours and the fallback), in the technology view by
\* the type classification; while the points are visible no other view's
\* rule is in effect.  Which rule is in effect is checked in every state; the
\* colours the rule gives depend on the rule only and are compared in the
\* states before any handler and after each switchView.
C27_ColouringFollowsView ==
    LET fresh == lastOp \in {"mount", "switchView"}
    IN  /\ view = "performance" =>
              /\ circleColor = "status"
              /\ fresh =>
                    /\ \A p \in Projects : CircleColorOf(p) = STATUS_COLORS[p.status]
                    /\ \A st \in {STATUSES[i] : i \in DOMAIN STATUSES} :
                          StatusColor(st) = STATUS_COLORS[st]
                    /\ StatusColor("SUSPENDED") = STATUS_COLORS[""]
        /\ view = "technology" =>
              /\ circleColor = "technology"
              /\ fresh => \A p \in Projects : CircleColorOf(p) = LegendColor(p.type)
        /\ pointsVisibility = "visible" =>
              circleColor = (IF view = "technology" THEN "technology" ELSE "status")

C27_Witness ==
    /\ view = "performance" /\ lastOp = "switchView"
    /\ circleColor = "status" /\ selectedYears # <<>>
    /\ pointsVisibility = "visible" /\ pointCount = Some(2)

\* ------------------------------------------------------------ region stats
\* C28: the stored statistics are present exactly when a region is active,
\* and they are the statistics of the region named by activeState.
C28_StatsBelongToActiveRegion ==
    /\ (stateData = None) <=> (activeState = None)
    /\ stateData # None =>
          /\ stateData[1] \in StateFeatures
          /\ activeState = Some(ToUpperCase(stateData[1].shapeName))

C28_Witness ==
    /\ lastOp = "stateClick"
    /\ stateData = Some(Kano)
    /\ activeState = Some(<<"K","A","N","O">>)

\* ------------------------------------------------------------ well-formedness
\* activeFilterCount, the number on the filter badge
activeFilterCount == Len(selectedYears) + Len(selectedStatus) + Len(selectedTypes)

NoDuplicates(a) == \A i, j \in DOMAIN a : a[i] = a[j] => i = j

\* C29: each selection holds no value twice and holds only values of its
\* list (YEARS, STATUSES, TYPES), so the badge count is the number of
\* distinct values selected.
C29_SelectionsWellFormed ==
    /\ NoDuplicates(selectedYears)
    /\ NoDuplicates(selectedStatus)
    /\ NoDuplicates(selectedTypes)
    /\ Elems(selectedYears) \subseteq Elems(YEARS)
    /\ Elems(selectedStatus) \subseteq Elems(STATUSES)
    /\ Elems(selectedTypes) \subseteq Elems(TYPES)
    /\ activeFilterCount = Cardinality(Elems(selectedYears))
                             + Cardinality(Elems(selectedStatus))
                             + Cardinality(Elems(selectedTypes))

C29_Witness ==
    /\ Len(selectedYears) = 2
    /\ Len(selectedStatus) = 1
    /\ Len(selectedTypes) = 1
    /\ activeFilterCount = 4
    /\ lastOp = "toggleType"

\* ------------------------------------------------------------ region click
\* C30: a click on a region is handled once per region layer that delivers
\* it; handling it a second time for the same feature leaves the selection,
\* the active region, its statistics and the applied filter as the first
\* handling left them.
C30_RegionClickIdempotent ==
    [][(handledTwice' /\ sampleTimers' > sampleTimers)
       => /\ activeState' = activeState
          /\ stateData' = stateData
          /\ selVars' = selVars
          /\ pointsFilter' = pointsFilter]_vars

C30_Witness ==
    /\ handledTwice
    /\ lastOp = "stateClick"
    /\ activeState = Some(<<"L","A","G","O","S">>)
    /\ stateData = Some(Lagos)
    /\ choroplethVisibility = "visible"
    /\ selectedYears # <<>>
    /\ pointsFilter = Compile(selectedYears, selectedStatus, selectedTypes, activeState)

====
